---- MODULE Spec2Model ----
(***************************************************************************)
(* The floated-binding pass of src/lib.js as a state machine.             *)
(*                                                                         *)
(* One run of the plugin over one compilation unit: the tree (ast), the   *)
(* scope tables the host keeps (bindings, globals), the run's two caches  *)
(* (GENERATED, RESERVED_NAMES), the program data the helper injection     *)
(* sets, and the traversal's pending nodes (agenda).  One action per      *)
(* visitor of the plugin.  A second specification, SpecHelper, runs the   *)
(* injected runtime helper (the memoising accessor).                      *)
(***************************************************************************)
EXTENDS Integers, Sequences, FiniteSets, TLC

VARIABLES
    ast,            \* the tree: node id -> [type, name, params, kids, up]
    bindings,       \* scope id -> own bindings [name, kind] (scope.bindings)
    globals,        \* names the program scope knows as globals (scope.globals)
    GENERATED,      \* lib.js:8   nodes marked as produced by this run
    RESERVED_NAMES, \* lib.js:10  scope id -> names reserved by this run
    progData,       \* programPath data: [injected, fbHelperName]
    agenda,         \* nodes the traversal has still to enter, in order
    hoists,         \* history: one record per hoist performed
    last,           \* history: what the last visit did
    thunks,         \* SpecHelper: the accessors made by the runtime helper
    stack,          \* SpecHelper: the producer calls that have not returned yet
    previous,       \* the tree a second run started from (<<>> in a first run)
    visited         \* history: the nodes a visitor has been called for

vars == <<ast, bindings, globals, GENERATED, RESERVED_NAMES, progData,
          agenda, hoists, last, thunks, stack, previous, visited>>

(***************************************************************************)
(* Bounds of the model.                                                    *)
(***************************************************************************)
\* deepest chain of nested closures of the input unit (main included)
MaxDepth == 3
\* SpecHelper: accessors made, and invocations of one accessor
MaxThunks == 1
MaxForce == 4

(***************************************************************************)
(* Trees as values (what @babel/types builders return) and their flat     *)
(* form: the tree's nodes numbered in pre-order, each with its parent.    *)
(***************************************************************************)
Tr(type, name, params, kids) ==
    [type |-> type, name |-> name, params |-> params, kids |-> kids]

TId(n)              == Tr("Identifier", n, <<>>, <<>>)
TNum                == Tr("NumericLiteral", "1", <<>>, <<>>)
TStr(s)             == Tr("StringLiteral", s, <<>>, <<>>)
TThis               == Tr("ThisExpression", "", <<>>, <<>>)
TSuper              == Tr("Super", "", <<>>, <<>>)
TNewTarget          == Tr("MetaProperty", "new.target", <<>>, <<>>)
TCall(callee, args) == Tr("CallExpression", "", <<>>, <<callee>> \o args)
TBin(l, r)          == Tr("BinaryExpression", "", <<>>, <<l, r>>)
TMember(obj, prop)  == Tr("MemberExpression", prop, <<>>, <<obj>>)
TAssign(n, r)       == Tr("AssignmentExpression", "", <<>>, <<TId(n), r>>)
TBlock(stmts)       == Tr("BlockStatement", "", <<>>, stmts)
TReturn(e)          == Tr("ReturnStatement", "", <<>>, <<e>>)
TExprStmt(e)        == Tr("ExpressionStatement", "", <<>>, <<e>>)
TImport             == Tr("ImportDeclaration", "", <<>>, <<>>)
TFunDecl(n, ps, b)  == Tr("FunctionDeclaration", n, ps, <<TBlock(b)>>)
TFunExpr(ps, b)     == Tr("FunctionExpression", "", ps, <<TBlock(b)>>)
TArrow(ps, body)    == Tr("ArrowFunctionExpression", "", ps, <<body>>)
TDeclarator(n, i)   == Tr("VariableDeclarator", n, <<>>, <<i>>)
TVarDecl(kind, n, i) == Tr("VariableDeclaration", kind, <<>>, <<TDeclarator(n, i)>>)
TProgram(stmts)     == Tr("Program", "", <<>>, stmts)

RECURSIVE TreeSize(_), KidsSize(_, _)
TreeSize(t) == 1 + KidsSize(t.kids, Len(t.kids))
KidsSize(ks, n) == IF n = 0 THEN 0 ELSE KidsSize(ks, n - 1) + TreeSize(ks[n])

\* the nodes of tree t, the first numbered id, as children of node parent
RECURSIVE Flatten(_, _, _), FlattenKids(_, _, _, _)
Flatten(t, id, parent) ==
    <<[type   |-> t.type,
       name   |-> t.name,
       params |-> t.params,
       kids   |-> [i \in 1..Len(t.kids) |-> id + 1 + KidsSize(t.kids, i - 1)],
       up     |-> parent]>>
    \o FlattenKids(t.kids, 1, id + 1, id)
FlattenKids(ks, i, id, parent) ==
    IF i > Len(ks) THEN <<>>
    ELSE Flatten(ks[i], id, parent)
         \o FlattenKids(ks, i + 1, id + TreeSize(ks[i]), parent)

\* the subtree of a rooted at id, as a value
RECURSIVE ToTree(_, _)
ToTree(a, id) ==
    Tr(a[id].type, a[id].name, a[id].params,
       [i \in 1..Len(a[id].kids) |-> ToTree(a, a[id].kids[i])])

\* t.cloneNode(node, true): a fresh copy of the whole subtree
cloneNode(a, id) == ToTree(a, id)

\* the ids of the subtree of a rooted at id (id included)
RECURSIVE Subtree(_, _)
Subtree(a, id) ==
    {id} \cup UNION {Subtree(a, a[id].kids[i]) : i \in 1..Len(a[id].kids)}

\* whether anc is a proper ancestor of id, by parent links
IsAncestor(a, anc, id) ==
    LET above[n \in DOMAIN a] ==
            IF a[n].up = 0 THEN FALSE
            ELSE IF a[n].up = anc THEN TRUE
            ELSE above[a[n].up]
    IN  above[id]

\* the nodes reachable from the program node: the tree as it would be printed
Attached(a) == Subtree(a, 1)

(***************************************************************************)
(* The host's tree and scope facility, as the plugin uses it.            *)
(***************************************************************************)
IsFunctionType(ty) ==
    ty \in {"FunctionDeclaration", "FunctionExpression", "ArrowFunctionExpression"}

isFunction(id) == IsFunctionType(ast[id].type)
isProgram(id)  == ast[id].type = "Program"
isCallExpression(id) == ast[id].type = "CallExpression"
isIdentifier(id) == ast[id].type = "Identifier"
isBlockStatement(id) == ast[id].type = "BlockStatement"

\* a node that opens a scope: the program, a function, or a block that is not
\* a function's body
IsScope(id) ==
    \/ isProgram(id)
    \/ isFunction(id)
    \/ (isBlockStatement(id) /\ ~isFunction(ast[id].up))

\* the nearest scope at or above node id (0: none)
ScopeFrom(id) ==
    LET from[n \in 0..Len(ast)] ==
            IF n = 0 THEN 0
            ELSE IF IsScope(n) THEN n
            ELSE from[ast[n].up]
    IN  from[id]

\* path.scope of a node that opens no scope itself
ScopeOf(n) == ScopeFrom(ast[n].up)

\* scope.parent
scopeParent(s) == ScopeFrom(ast[s].up)

\* the scopes from s outward, s first
ScopeChain(s) ==
    LET chain[u \in 0..Len(ast)] ==
            IF u = 0 THEN <<>> ELSE <<u>> \o chain[scopeParent(u)]
    IN  chain[s]

ChainSet(s) == {ScopeChain(s)[i] : i \in 1..Len(ScopeChain(s))}

\* scope.getFunctionParent(): s or the nearest scope above it that is a function
getFunctionParent(s) ==
    LET up[u \in 0..Len(ast)] ==
            IF u = 0 THEN 0
            ELSE IF isFunction(u) THEN u
            ELSE up[scopeParent(u)]
    IN  up[s]

\* scope.getProgramParent()
getProgramParent(s) ==
    LET up[u \in 0..Len(ast)] ==
            IF u = 0 THEN 0
            ELSE IF isProgram(u) THEN u
            ELSE up[scopeParent(u)]
    IN  up[s]

\* path.getFunctionParent(): the nearest function strictly above node n
pathFunctionParent(n) ==
    LET up[m \in DOMAIN ast] ==
            IF ast[m].up = 0 THEN 0
            ELSE IF isFunction(ast[m].up) THEN ast[m].up
            ELSE up[ast[m].up]
    IN  up[n]

OwnNames(s) == {b.name : b \in bindings[s]}

hasOwnBinding(s, n) == n \in OwnNames(s)

\* scope.hasGlobal(n): globals are kept on the program scope, which every
\* scope reaches
hasGlobal(s, n) == n \in globals

\* scope.hasBinding(n): an own binding of s or of a scope above it
hasBinding(s, n) == \E u \in ChainSet(s) : hasOwnBinding(u, n)

\* scope.getBinding(n).scope (0: no binding)
BindingScope(s, n) ==
    LET owner[u \in 0..Len(ast)] ==
            IF u = 0 THEN 0
            ELSE IF hasOwnBinding(u, n) THEN u
            ELSE owner[scopeParent(u)]
    IN  owner[s]

\* scope.getBinding(n).kind
BindingKind(s, n) ==
    LET o == BindingScope(s, n)
    IN  IF o = 0 THEN "none"
        ELSE (CHOOSE b \in bindings[o] : b.name = n).kind

\* path.isReferencedIdentifier(): an identifier that is read (the left side of
\* an assignment is not; declared names and property keys are no nodes here)
isReferencedIdentifier(id) ==
    /\ isIdentifier(id)
    /\ ~(/\ ast[id].up # 0
         /\ ast[ast[id].up].type = "AssignmentExpression"
         /\ ast[ast[id].up].kids[1] = id)

\* binding.referencePaths.length >= 1 for the binding of n owned by scope s
Referenced(s, n) ==
    \E i \in DOMAIN ast :
        /\ isReferencedIdentifier(i)
        /\ ast[i].name = n
        /\ BindingScope(ScopeOf(i), n) = s

\* what crawling scope s of tree a registers as its own bindings
RECURSIVE VarDeclsIn(_, _)
VarDeclsIn(a, st) ==
    IF a[st].type = "VariableDeclaration" /\ a[st].name = "var"
    THEN {[name |-> a[a[st].kids[1]].name, kind |-> "var"]}
    ELSE IF a[st].type = "BlockStatement"
    THEN UNION {VarDeclsIn(a, a[st].kids[i]) : i \in 1..Len(a[st].kids)}
    ELSE {}

LexicalDeclsIn(a, blk) ==
    UNION {
        LET st == a[blk].kids[i]
        IN  IF a[st].type = "VariableDeclaration" /\ a[st].name \in {"let", "const"}
            THEN {[name |-> a[a[st].kids[1]].name, kind |-> a[st].name]}
            ELSE IF a[st].type = "FunctionDeclaration"
            THEN {[name |-> a[st].name, kind |-> "hoisted"]}
            ELSE {}
        : i \in 1..Len(a[blk].kids)}

Crawl(a, s) ==
    IF a[s].type = "Program"
    THEN VarDeclsIn(a, s) \cup LexicalDeclsIn(a, s)
         \cup UNION {VarDeclsIn(a, a[s].kids[i]) : i \in 1..Len(a[s].kids)}
    ELSE IF IsFunctionType(a[s].type)
    THEN LET body == a[s].kids[1]
             ps == {[name |-> a[s].params[i], kind |-> "param"] : i \in 1..Len(a[s].params)}
             inBody == IF a[body].type = "BlockStatement"
                       THEN VarDeclsIn(a, body) \cup LexicalDeclsIn(a, body)
                       ELSE {}
         IN  ps \cup {b \in inBody : b.name \notin {p.name : p \in ps}}
    ELSE LexicalDeclsIn(a, s)

\* the scopes among the nodes ids of tree a
ScopesAmong(a, ids) ==
    {i \in ids :
        \/ a[i].type = "Program"
        \/ IsFunctionType(a[i].type)
        \/ (a[i].type = "BlockStatement" /\ ~IsFunctionType(a[a[i].up].type))}

(***************************************************************************)
(* lib.js: helpers of the plugin.                                         *)
(***************************************************************************)
\* lib.js:12  the reserved set of a scope after getReserved(scope): created
\* from the scope's own binding names on first use
getReserved(R, scope) ==
    IF scope \in DOMAIN R THEN R ELSE R @@ (scope :> OwnNames(scope))

\* lib.js:25
getHelperName ==
    IF progData.fbHelperName # "" THEN progData.fbHelperName ELSE "floatedBinding"

\* lib.js:39  (kids of a call: the callee, then the arguments)
isNullaryCall(n) == isCallExpression(n) /\ Len(ast[n].kids) = 1

\* variant that finds no zero-argument call
exprContainsNullaryCallNever(n) == n = 0

\* lib.js:41  the walk over every child node of n, n included
exprContainsNullaryCall(n) == \E x \in Subtree(ast, n) : isNullaryCall(x)

\* variant that does not look for zero-argument calls
isPureEnoughInitAlways(node) == node # 0

\* lib.js:58
isPureEnoughInit(node) ==
    IF node = 0 THEN FALSE
    ELSE IF exprContainsNullaryCall(node) THEN FALSE
    ELSE TRUE

\* variant that finds no frame-sensitive reference
containsNothingFrameSensitive(anyPath) == FALSE

\* lib.js:65  anyPath.traverse visits the nodes below anyPath, not anyPath
containsFrameSensitiveThings(anyPath) ==
    \E p \in Subtree(ast, anyPath) \ {anyPath} :
        \/ ast[p].type = "ThisExpression"
        \/ (isIdentifier(p) /\ ast[p].name = "arguments" /\ isReferencedIdentifier(p))
        \/ ast[p].type = "Super"
        \/ (ast[p].type = "MetaProperty" /\ ast[p].name = "new.target")

\* the initializer of a declarator (0: none)
InitOf(decl) == IF Len(ast[decl].kids) = 0 THEN 0 ELSE ast[decl].kids[1]

\* lib.js:98
isPureEnoughDecl(declPath) ==
    IF ~isPureEnoughInit(InitOf(declPath)) THEN FALSE
    ELSE IF containsFrameSensitiveThings(InitOf(declPath)) THEN FALSE
    ELSE TRUE

\* lib.js:106  the names of the referenced identifiers below nodePath
freeVarsOfNode(nodePath) ==
    {ast[p].name : p \in {q \in Subtree(ast, nodePath) \ {nodePath} :
                              isReferencedIdentifier(q)}}

\* lib.js:117
freeVarsOfDecl(declPath) == freeVarsOfNode(InitOf(declPath))

\* lib.js:133-147  every name is found on the chain from the use site
AllFound(allNames, startScope) ==
    \A name \in allNames :
        \E scope \in ChainSet(startScope) :
            hasOwnBinding(scope, name) \/ hasGlobal(scope, name)

\* lib.js:153-163  the next enclosing function or program scope above target
NextFuncFrom(searchScope) ==
    LET search[u \in 0..Len(ast)] ==
            IF u = 0 THEN 0
            ELSE IF isFunction(u) \/ isProgram(u) THEN u
            ELSE search[scopeParent(u)]
    IN  search[searchScope]

NextFunc(targetScope) == NextFuncFrom(scopeParent(targetScope))

\* variant of the visibility test that lets every name pass
VisibleAtAnyScope(name, parentFunc, startScope) == TRUE

\* lib.js:167-206  the test one name has to pass for the step to parentFunc
VisibleAt(name, parentFunc, startScope) ==
    LET bscope == BindingScope(startScope, name)
    IN  IF bscope = 0
        THEN hasGlobal(parentFunc, name)
        ELSE \/ bscope \in ChainSet(parentFunc)
             \/ (/\ isFunction(parentFunc)
                 /\ \E i \in 1..Len(ast[parentFunc].params) :
                        ast[parentFunc].params[i] = name)
             \/ hasGlobal(parentFunc, name)

\* lib.js:165-208
canHoistToParent(allNames, parentFunc, startScope) ==
    \A name \in allNames : VisibleAt(name, parentFunc, startScope)

\* variant of the walk that stays where it starts
WidenNever(targetScope, allNames, startScope) == targetScope

\* lib.js:152-210  the walk outward across function boundaries
Widen(targetScope, allNames, startScope) ==
    LET widen[t \in DOMAIN ast] ==
            IF scopeParent(t) = 0 THEN t
            ELSE LET parentFunc == NextFunc(t)
                 IN  IF parentFunc = 0 THEN t
                     ELSE IF ~canHoistToParent(allNames, parentFunc, startScope)
                     THEN t
                     ELSE widen[parentFunc]
    IN  widen[targetScope]

\* the scope the walk starts from (lib.js:129, 486, 564)
CurrentScopeOf(startPath) ==
    IF getFunctionParent(ScopeOf(startPath)) # 0
    THEN getFunctionParent(ScopeOf(startPath))
    ELSE getProgramParent(ScopeOf(startPath))

\* lib.js:122  (0: null)
outermostScopeWith(allNames, startPath) ==
    IF allNames = {} THEN getProgramParent(ScopeOf(startPath))
    ELSE LET currentScope == CurrentScopeOf(startPath)
         IN  IF currentScope = 0 THEN 0
             ELSE IF ~AllFound(allNames, ScopeOf(startPath)) THEN currentScope
             ELSE Widen(currentScope, allNames, ScopeOf(startPath))

\* the characters /[^A-Za-z0-9_$]/ does not match
SafeChars ==
    {"a","b","c","d","e","f","g","h","i","j","k","l","m","n","o","p","q","r",
     "s","t","u","v","w","x","y","z","A","B","C","D","E","F","G","H","I","J",
     "K","L","M","N","O","P","Q","R","S","T","U","V","W","X","Y","Z","0","1",
     "2","3","4","5","6","7","8","9","_","$"}

Digits == {"0","1","2","3","4","5","6","7","8","9"}

RECURSIVE ReplaceUnsafe(_)
ReplaceUnsafe(str) ==
    IF Len(str) = 0 THEN ""
    ELSE (IF SubSeq(str, 1, 1) \in SafeChars THEN SubSeq(str, 1, 1) ELSE "_")
         \o ReplaceUnsafe(SubSeq(str, 2, Len(str)))

\* lib.js:215
sanitizeBase(base) ==
    LET cleaned == ReplaceUnsafe(base)
    IN  IF cleaned = "" THEN "fb" ELSE cleaned

\* lib.js:239-244  the scopes from u outward, up to but not including target
ChainUpTo(u, targetScope) ==
    LET chain[s \in 0..Len(ast)] ==
            IF s = 0 \/ s = targetScope THEN {}
            ELSE {s} \cup chain[scopeParent(s)]
    IN  chain[u]

\* variant of taken that looks at the target scope and above only
takenAtTarget(R, n, targetScope, useScope) ==
    \E s \in ChainSet(targetScope) :
        \/ (s \in DOMAIN R /\ n \in R[s])
        \/ hasBinding(s, n)
        \/ hasGlobal(s, n)

\* lib.js:229  whether name n is taken, given the reserved table R
taken(R, n, targetScope, useScope) ==
    \/ \E s \in ChainSet(targetScope) :
          \/ (s \in DOMAIN R /\ n \in R[s])
          \/ hasBinding(s, n)
          \/ hasGlobal(s, n)
    \/ \E u \in ChainUpTo(useScope, targetScope) :
          \/ (u \in DOMAIN R /\ n \in R[u])
          \/ hasOwnBinding(u, n)

\* lib.js:255-257  the first i >= from with base__fb_<i> not taken
RECURSIVE FirstFreeSuffix(_, _, _, _, _)
FirstFreeSuffix(R, base, targetScope, useScope, i) ==
    IF taken(R, base \o "__fb_" \o ToString(i), targetScope, useScope)
    THEN FirstFreeSuffix(R, base, targetScope, useScope, i + 1)
    ELSE i

\* lib.js:225  the name makeUniqueFbName returns
makeUniqueFbName(base, targetScope, useScope) ==
    LET b == sanitizeBase(base)
        R == getReserved(RESERVED_NAMES, targetScope)
    IN  IF ~taken(R, b \o "__fb", targetScope, useScope)
        THEN b \o "__fb"
        ELSE b \o "__fb_" \o ToString(FirstFreeSuffix(R, b, targetScope, useScope, 1))

\* variant that does not record the name
ReservedAfterNothing(targetScope, name) == getReserved(RESERVED_NAMES, targetScope)

\* lib.js:227, 251, 258  the reserved table after makeUniqueFbName returned name
ReservedAfter(targetScope, name) ==
    LET R == getReserved(RESERVED_NAMES, targetScope)
    IN  [R EXCEPT ![targetScope] = @ \cup {name}]

\* the names of the arguments that are identifiers, joined by "_"
RECURSIVE JoinArgNames(_, _)
JoinArgNames(node, i) ==
    IF i > Len(ast[node].kids) THEN ""
    ELSE LET rest == JoinArgNames(node, i + 1)
             arg == ast[node].kids[i]
         IN  IF ~isIdentifier(arg) \/ ast[arg].name = "" THEN rest
             ELSE IF rest = "" THEN ast[arg].name
             ELSE ast[arg].name \o "_" \o rest

\* lib.js:262
deriveBaseFromCall(node) ==
    LET callee == ast[node].kids[1]
        base0 == IF isIdentifier(callee) THEN ast[callee].name
                 ELSE IF isCallExpression(callee) /\ isIdentifier(ast[callee].kids[1])
                 THEN ast[ast[callee].kids[1]].name
                 ELSE "fb"
        argNames == JoinArgNames(node, 2)
    IN  sanitizeBase(IF argNames # "" THEN base0 \o "_" \o argNames ELSE base0)

\* /__fb(_\d+)?$/.test(name)   (lib.js:462)
RECURSIVE AllDigits(_)
AllDigits(str) ==
    IF Len(str) = 0 THEN TRUE
    ELSE SubSeq(str, 1, 1) \in Digits /\ AllDigits(SubSeq(str, 2, Len(str)))

EndsWith(str, suffix) ==
    /\ Len(str) >= Len(suffix)
    /\ SubSeq(str, Len(str) - Len(suffix) + 1, Len(str)) = suffix

IsFbName(name) ==
    \/ EndsWith(name, "__fb")
    \/ \E k \in 1..Len(name) :
          /\ k + 5 <= Len(name)
          /\ SubSeq(name, k, k + 4) = "__fb_"
          /\ AllDigits(SubSeq(name, k + 5, Len(name)))

\* lib.js:327
isInFloatedBinding(path) ==
    \E p \in DOMAIN ast :
        /\ IsAncestor(ast, p, path)
        /\ isCallExpression(p)
        /\ isIdentifier(ast[p].kids[1])
        /\ ast[ast[p].kids[1]].name = getHelperName

(***************************************************************************)
(* Changes of the tree.                                                    *)
(***************************************************************************)
\* a with the nodes of tree t added below parent; the new root is Len(a) + 1
AppendTree(a, t, parent) == a \o Flatten(t, Len(a) + 1, parent)

InsertAt(seq, pos, x) ==
    SubSeq(seq, 1, pos - 1) \o <<x>> \o SubSeq(seq, pos, Len(seq))

\* path.replaceWith(t): the parent's child old becomes a new node built from t
ReplaceWith(a, old, t) ==
    LET p == a[old].up
        a1 == AppendTree(a, t, p)
    IN  [a1 EXCEPT ![p].kids =
            [i \in 1..Len(a[p].kids) |->
                IF a[p].kids[i] = old THEN Len(a) + 1 ELSE a[p].kids[i]]]

\* lib.js:277
ensureArrowBlock(a, funcPath) ==
    IF /\ a[funcPath].type = "ArrowFunctionExpression"
       /\ a[a[funcPath].kids[1]].type # "BlockStatement"
    THEN LET expr == a[funcPath].kids[1]
             blk == Len(a) + 1
             ret == Len(a) + 2
             a1 == a \o <<[type |-> "BlockStatement", name |-> "", params |-> <<>>,
                           kids |-> <<ret>>, up |-> funcPath],
                          [type |-> "ReturnStatement", name |-> "", params |-> <<>>,
                           kids |-> <<expr>>, up |-> blk]>>
         IN  [a1 EXCEPT ![funcPath].kids = <<blk>>, ![expr].up = ret]
    ELSE a

\* the nearest BlockStatement strictly above node n (0: none)
BlockAbove(a, n) ==
    LET above[m \in DOMAIN a] ==
            IF a[m].up = 0 THEN 0
            ELSE IF a[a[m].up].type = "BlockStatement" THEN a[m].up
            ELSE above[a[m].up]
    IN  above[n]

\* lib.js:284  the tree after getHoistInsertionPath(scope) ...
TreeForInsertion(a, scope) ==
    IF IsFunctionType(a[scope].type) THEN ensureArrowBlock(a, scope) ELSE a

\* ... and the container it returns
getHoistInsertionPath(a, scope) ==
    IF a[scope].type = "Program" THEN scope
    ELSE IF IsFunctionType(a[scope].type)
    THEN TreeForInsertion(a, scope)[scope].kids[1]
    ELSE IF BlockAbove(a, scope) # 0 THEN BlockAbove(a, scope)
    ELSE 1

\* lib.js:306-318  how many leading statements are imports or directives
RECURSIVE AnchorIndex(_, _, _)
AnchorIndex(a, containerPath, i) ==
    IF i > Len(a[containerPath].kids) THEN i - 1
    ELSE LET p == a[containerPath].kids[i]
         IN  IF a[containerPath].type = "Program" /\ a[p].type = "ImportDeclaration"
             THEN AnchorIndex(a, containerPath, i + 1)
             ELSE IF /\ a[p].type = "ExpressionStatement"
                     /\ a[a[p].kids[1]].type = "StringLiteral"
             THEN AnchorIndex(a, containerPath, i + 1)
             ELSE i - 1

\* variant that puts the statement at the end of the container
InsertionIndexAtEnd(a, containerPath) == Len(a[containerPath].kids) + 1

\* where insertAfterPrologueAndImports puts the statement
InsertionIndex(a, containerPath) == AnchorIndex(a, containerPath, 1) + 1

\* lib.js:300  the statement built from t is node Len(a) + 1 of the result
insertAfterPrologueAndImports(a, containerPath, t) ==
    LET a1 == AppendTree(a, t, containerPath)
    IN  [a1 EXCEPT ![containerPath].kids =
            InsertAt(a[containerPath].kids, InsertionIndex(a, containerPath), Len(a) + 1)]

\* lib.js:365-398  function <name>(init) { let get = () => { const v = init();
\*                 get = () => v; return v; }; return () => get(); }
HelperTree(helperName) ==
    TFunDecl(helperName, <<"init">>,
        <<TVarDecl("let", "get",
            TArrow(<<>>, TBlock(
                <<TVarDecl("const", "v", TCall(TId("init"), <<>>)),
                  TExprStmt(TAssign("get", TArrow(<<>>, TId("v")))),
                  TReturn(TId("v"))>>))),
          TReturn(TArrow(<<>>, TCall(TId("get"), <<>>)))>>)

\* variant that declares the accessor with `var`
FbDeclTreeVar(fbName, helperName, cloned) ==
    TVarDecl("var", fbName, TCall(TId(helperName), <<TArrow(<<>>, cloned)>>))

\* lib.js:507-512, 573-578  const <fbName> = <helper>(() => <cloned>);
\* its nodes in order: declaration, declarator, helper call, helper
\* identifier, producer arrow, the copied expression
FbDeclTree(fbName, helperName, cloned) ==
    TVarDecl("const", fbName, TCall(TId(helperName), <<TArrow(<<>>, cloned)>>))

\* lib.js:525, 592  <fbName>()
FbCallTree(fbName) == TCall(TId(fbName), <<>>)

(***************************************************************************)
(* The traversal: the nodes still to be entered, in tree order.  Only     *)
(* call expressions and declarators have a visitor (and the program,      *)
(* entered first); every other node is entered by putting its children    *)
(* in its place.  A node put into the tree is entered later by the same   *)
(* traversal; a node taken out of it is not.  The host's scope tables are *)
(* filled when a scope is first crawled and are not told of the           *)
(* declarations the pass inserts: those are known through RESERVED_NAMES  *)
(* only.                                                                   *)
(***************************************************************************)
HasVisitor(a, n) == a[n].type \in {"Program", "CallExpression", "VariableDeclarator"}

RECURSIVE Expand(_, _)
Expand(a, ag) ==
    IF ag = <<>> THEN <<>>
    ELSE IF HasVisitor(a, Head(ag)) THEN ag
    ELSE Expand(a, a[Head(ag)].kids \o Tail(ag))

\* a statement inserted into the body of scopeNode is queued behind the
\* nodes of that body still pending
RECURSIVE QueueBehind(_, _, _, _)
QueueBehind(a, ag, scopeNode, x) ==
    IF ag = <<>> THEN <<x>>
    ELSE IF IsAncestor(a, scopeNode, Head(ag))
    THEN <<Head(ag)>> \o QueueBehind(a, Tail(ag), scopeNode, x)
    ELSE <<x>> \o ag

(***************************************************************************)
(* lib.js:457  visitor CallExpression.                                    *)
(***************************************************************************)
\* lib.js:490
dependsOnLocalVar(fvs, path) ==
    \E n \in fvs : BindingKind(ScopeOf(path), n) \in {"var", "let", "const"}

\* lib.js:459-497  the first early return the handler takes ("hoist": none)
CallVerdict(path) ==
    LET callee == ast[path].kids[1]
        fvs == freeVarsOfNode(path)
        targetScope == outermostScopeWith(fvs, path)
    IN  IF path \in GENERATED THEN "generated"
        ELSE IF isIdentifier(callee) /\ IsFbName(ast[callee].name) THEN "thunk"
        ELSE IF isIdentifier(callee) /\ ast[callee].name = getHelperName THEN "helper"
        ELSE IF isInFloatedBinding(path) THEN "inhelper"
        ELSE IF pathFunctionParent(path) = 0 THEN "toplevel"
        ELSE IF /\ ast[ast[path].up].type = "VariableDeclarator"
                /\ InitOf(ast[path].up) = path
        THEN "declinit"
        ELSE IF ~isPureEnoughInit(path) THEN "nullary"
        ELSE IF containsFrameSensitiveThings(path) THEN "frame"
        ELSE IF targetScope = 0 THEN "notarget"
        ELSE IF targetScope = CurrentScopeOf(path) THEN "samescope"
        ELSE IF dependsOnLocalVar(fvs, path) THEN "localdep"
        ELSE "hoist"

(***************************************************************************)
(* lib.js:531  visitor VariableDeclarator.                                *)
(***************************************************************************)
isLiteral(n) == ast[n].type \in {"NumericLiteral", "StringLiteral"}

\* lib.js:533-565  the first early return the handler takes ("hoist": none)
DeclVerdict(path) ==
    LET vd == ast[path].up
        name == ast[path].name
        fvs == freeVarsOfDecl(path)
        targetScope == outermostScopeWith(fvs, path)
    IN  IF ast[vd].type # "VariableDeclaration" THEN "notsimple"
        ELSE IF ast[vd].name \notin {"const", "let", "var"} THEN "notsimple"
        ELSE IF path \in GENERATED \/ vd \in GENERATED THEN "generated"
        ELSE IF pathFunctionParent(path) = 0 THEN "toplevel"
        ELSE IF InitOf(path) = 0 THEN "noinit"
        ELSE IF ~isPureEnoughInit(InitOf(path)) THEN "nullary"
        ELSE IF ~isPureEnoughDecl(path) THEN "frame"
        ELSE IF \/ BindingScope(ScopeOf(path), name) = 0
                \/ ~Referenced(BindingScope(ScopeOf(path), name), name)
        THEN "unused"
        ELSE IF fvs = {} /\ ~isLiteral(InitOf(path)) THEN "nodeps"
        ELSE IF targetScope = 0 THEN "notarget"
        ELSE IF targetScope = CurrentScopeOf(path) THEN "samescope"
        ELSE "hoist"

(***************************************************************************)
(* The steps of the run.                                                   *)
(***************************************************************************)
\* variant of an early return that does not go into the node's children
RejectAndSkip(path, via, why) ==
    /\ agenda' = Expand(ast, Tail(agenda))
    /\ last' = [via |-> via, node |-> path, verdict |-> why]
    /\ visited' = visited \cup {path}
    /\ UNCHANGED <<ast, bindings, globals, GENERATED, RESERVED_NAMES, progData,
                   hoists, thunks, stack, previous>>

\* a visit that returns early: nothing changes, the traversal goes on into
\* the node's children
Reject(path, via, why) ==
    /\ agenda' = Expand(ast, ast[path].kids \o Tail(agenda))
    /\ last' = [via |-> via, node |-> path, verdict |-> why]
    /\ visited' = visited \cup {path}
    /\ UNCHANGED <<ast, bindings, globals, GENERATED, RESERVED_NAMES, progData,
                   hoists, thunks, stack, previous>>

\* lib.js:499-528 and 567-595: expr, the call itself or the initializer of
\* declarator site, is copied into a hoisted declaration in targetScope and
\* replaced by a call of the new accessor
Hoist(via, site, expr, base, fvs, targetScope) ==
    LET useScope == ScopeOf(site)
        fbName == makeUniqueFbName(base, targetScope, useScope)
        cloned == cloneNode(ast, expr)
        a1 == TreeForInsertion(ast, targetScope)
        container == getHoistInsertionPath(ast, targetScope)
        fbDecl == Len(a1) + 1
        a2 == insertAfterPrologueAndImports(a1, container,
                  FbDeclTree(fbName, getHelperName, cloned))
        fbCall == Len(a2) + 1
        a3 == ReplaceWith(a2, expr, FbCallTree(fbName))
        fresh == (Len(ast) + 1)..Len(a3)
    IN  /\ ast' = a3
        /\ RESERVED_NAMES' = ReservedAfter(targetScope, fbName)
        /\ GENERATED' = GENERATED \cup {fbDecl + 5, fbDecl, fbCall}
        /\ bindings' = bindings @@ [s \in ScopesAmong(a3, fresh) |-> Crawl(a3, s)]
        /\ agenda' = Expand(a3, QueueBehind(a3, <<fbCall>> \o Tail(agenda),
                                            targetScope, fbDecl))
        /\ hoists' = Append(hoists,
               [via |-> via, site |-> site, expr |-> expr, fvs |-> fvs,
                useScope |-> useScope, current |-> CurrentScopeOf(site),
                target |-> targetScope, name |-> fbName, helper |-> getHelperName,
                container |-> container, decl |-> fbDecl, call |-> fbCall,
                reservedBefore |-> RESERVED_NAMES])
        /\ last' = [via |-> via, node |-> site, verdict |-> "hoist"]
        /\ visited' = visited \cup {site}
        /\ UNCHANGED <<globals, progData, thunks, stack, previous>>

\* lib.js:343
HelperBase == "floatedBinding"

\* lib.js:346  taken, for the helper's name
helperTaken(R, n, programScope) ==
    \E s \in ChainSet(programScope) :
        \/ (s \in DOMAIN R /\ n \in R[s])
        \/ hasBinding(s, n)
        \/ hasGlobal(s, n)

RECURSIVE FirstFreeHelper(_, _, _)
FirstFreeHelper(R, programScope, i) ==
    IF helperTaken(R, HelperBase \o "_" \o ToString(i), programScope)
    THEN FirstFreeHelper(R, programScope, i + 1)
    ELSE i

\* variant that starts the search at suffix 2
ChooseHelperNameFromTwo(R, programScope) ==
    IF helperTaken(R, HelperBase, programScope)
    THEN HelperBase \o "_" \o ToString(FirstFreeHelper(R, programScope, 2))
    ELSE HelperBase

\* lib.js:343-361
ChooseHelperName(R, programScope) ==
    IF helperTaken(R, HelperBase, programScope)
    THEN HelperBase \o "_" \o ToString(FirstFreeHelper(R, programScope, 1))
    ELSE HelperBase

\* lib.js:452 visitor Program, and ensureHelper (lib.js:335)
VisitProgram ==
    /\ agenda # <<>>
    /\ isProgram(Head(agenda))
    /\ LET programPath == Head(agenda)
           R == getReserved(RESERVED_NAMES, programPath)
           helperName == ChooseHelperName(R, programPath)
           a1 == insertAfterPrologueAndImports(ast, programPath, HelperTree(helperName))
           fresh == (Len(ast) + 1)..Len(a1)
       IN  IF progData.injected
           THEN /\ agenda' = Expand(ast, ast[programPath].kids \o Tail(agenda))
                /\ UNCHANGED <<ast, bindings, RESERVED_NAMES, progData>>
           ELSE /\ progData' = [injected |-> TRUE, fbHelperName |-> helperName]
                /\ RESERVED_NAMES' = [R EXCEPT ![programPath] = @ \cup {helperName}]
                /\ ast' = a1
                /\ bindings' = bindings @@ [s \in ScopesAmong(a1, fresh) |-> Crawl(a1, s)]
                /\ agenda' = Expand(a1, a1[programPath].kids \o Tail(agenda))
    /\ last' = [via |-> "program", node |-> Head(agenda), verdict |-> "helper"]
    /\ visited' = visited \cup {Head(agenda)}
    /\ UNCHANGED <<globals, GENERATED, hoists, thunks, stack, previous>>

VisitCallExpression ==
    /\ agenda # <<>>
    /\ isCallExpression(Head(agenda))
    /\ LET path == Head(agenda)
           fvs == freeVarsOfNode(path)
       IN  IF CallVerdict(path) = "hoist"
           THEN Hoist("call", path, path, deriveBaseFromCall(path), fvs,
                      outermostScopeWith(fvs, path))
           ELSE Reject(path, "call", CallVerdict(path))

VisitVariableDeclarator ==
    /\ agenda # <<>>
    /\ ast[Head(agenda)].type = "VariableDeclarator"
    /\ LET path == Head(agenda)
           fvs == freeVarsOfDecl(path)
       IN  IF DeclVerdict(path) = "hoist"
           THEN Hoist("decl", path, InitOf(path), ast[path].name, fvs,
                      outermostScopeWith(fvs, path))
           ELSE Reject(path, "decl", DeclVerdict(path))

(***************************************************************************)
(* The input units.  Every unit has the shape of the repository's tests   *)
(* (src/test_data/*/in.js): the curried add, and main, a chain of nested  *)
(* closures with one parameter each whose innermost body is one of       *)
(* Bodies.  o, m, i are the parameters of the outermost closure, of the   *)
(* closure around the innermost one, and of the innermost one.            *)
(***************************************************************************)
ParamNames == <<"x", "y", "z", "u", "w">>

Curried(f, a, b) == TCall(TCall(TId(f), <<a>>), <<b>>)

Bodies(o, m, i) == <<
    \* 1: test 3, floating an expression
    <<TReturn(TBin(Curried("add", TId(o), TId(m)), TId(i)))>>,
    \* 2-4: tests 4 and 1, var / let / const
    <<TVarDecl("var", "xy", Curried("add", TId(o), TId(m))),
      TReturn(Curried("add", TId("xy"), TId(i)))>>,
    <<TVarDecl("let", "xy", Curried("add", TId(o), TId(m))),
      TReturn(Curried("add", TId("xy"), TId(i)))>>,
    <<TVarDecl("const", "xy", Curried("add", TId(o), TId(m))),
      TReturn(Curried("add", TId("xy"), TId(i)))>>,
    \* 5-8: nullary calls: as the candidate, nested in it, in a nested function
    <<TReturn(TBin(TCall(TId("foo"), <<>>), TId(i)))>>,
    <<TReturn(TBin(Curried("add", TCall(TId("foo"), <<>>), TId(m)), TId(i)))>>,
    <<TVarDecl("var", "xy", Curried("add", TCall(TId("foo"), <<>>), TId(m))),
      TReturn(TId("xy"))>>,
    <<TVarDecl("var", "xy",
          Curried("add", TFunExpr(<<>>, <<TReturn(TCall(TId("foo"), <<>>))>>), TId(m))),
      TReturn(TId("xy"))>>,
    \* 9-15: frame-sensitive references
    <<TReturn(TBin(Curried("add", TMember(TThis, "a"), TId(m)), TId(i)))>>,
    <<TVarDecl("var", "xy", Curried("add", TThis, TId(m))), TReturn(TId("xy"))>>,
    <<TVarDecl("var", "self", TThis), TReturn(Curried("add", TId("self"), TId(i)))>>,
    <<TVarDecl("var", "xy", Curried("add", TId("arguments"), TId(m))),
      TReturn(TId("xy"))>>,
    <<TReturn(TBin(Curried("add", TNewTarget, TId(m)), TId(i)))>>,
    <<TVarDecl("var", "xy", Curried("add", TMember(TSuper, "a"), TId(m))),
      TReturn(TId("xy"))>>,
    <<TVarDecl("var", "xy",
          Curried("add", TFunExpr(<<>>, <<TReturn(TThis)>>), TId(m))),
      TReturn(TId("xy"))>>,
    \* 16-17: the same base name twice: one target, two targets
    <<TReturn(TBin(Curried("add", TId(o), TId(m)), Curried("add", TId(o), TId(m))))>>,
    <<TReturn(TBin(Curried("add", TId(m), TId(o)), Curried("add", TId(o), TId(o))))>>,
    \* 18: an initializer that is a function with a declaration of its own
    <<TVarDecl("var", "k",
          TFunExpr(<<"q">>, <<TVarDecl("var", o, Curried("add", TId(m), TId(m))),
                              TReturn(TId(o))>>)),
      TReturn(TCall(TId("k"), <<TId(i)>>))>>,
    \* 19: var x = x || 1, x also the outermost parameter
    <<TVarDecl("var", o, TBin(TId(o), TNum)), TReturn(TId(o))>>,
    \* 20-21: the use site in a block with bindings of its own
    <<TBlock(<<TVarDecl("let", "k", TId(m)),
               TVarDecl("var", "q", Curried("add", TId("k"), TId(o))),
               TReturn(TId("q"))>>)>>,
    <<TBlock(<<TVarDecl("let", "xy__fb", TNum),
               TVarDecl("var", "xy", Curried("add", TId(o), TId(m))),
               TReturn(TBin(TId("xy"), TId("xy__fb")))>>)>>,
    \* 22: a declaration nobody reads
    <<TVarDecl("var", "unused", Curried("add", TId(o), TId(m))), TReturn(TId(i))>>,
    \* 23: a global callee
    <<TReturn(TBin(Curried("g", TId(o), TId(m)), TId(i)))>>,
    \* 24: a literal initializer
    <<TVarDecl("var", "c", TNum), TReturn(Curried("add", TId("c"), TId(i)))>>,
    \* 25-26: a local named like the enclosing closure's parameter
    <<TVarDecl("var", m, TNum), TReturn(TBin(Curried("add", TId(m), TId(m)), TId(i)))>>,
    <<TVarDecl("var", m, TNum),
      TVarDecl("var", "q", Curried("add", TId(m), TId(m))),
      TReturn(TId("q"))>>,
    \* 27: an initializer reading a name bound only inside it
    <<TVarDecl("var", "k", TFunExpr(<<"q">>, <<TReturn(Curried("add", TId("q"), TId(m)))>>)),
      TReturn(TCall(TId("k"), <<TId(i)>>))>>,
    \* 28: an initializer that is one identifier
    <<TVarDecl("var", "xy", TId(o)), TReturn(TId("xy"))>>,
    \* 29: a declaration without initializer
    <<Tr("VariableDeclaration", "var", <<>>, <<Tr("VariableDeclarator", "xy", <<>>, <<>>)>>),
      TReturn(TBin(TId("xy"), Curried("add", TId(o), TId(m))))>>,
    \* 30: two declarations of one name floating to two scopes, the inner first
    <<TVarDecl("var", "f",
          TFunExpr(<<"q">>, <<TReturn(TFunExpr(<<"r">>,
              <<TVarDecl("var", "xy", Curried("add", TId("q"), TId("q"))),
                TReturn(TId("xy"))>>))>>)),
      TReturn(TFunExpr(<<"v">>,
          <<TVarDecl("var", "xy", Curried("add", TId(i), TId(i))),
            TReturn(TId("xy"))>>))>>,
    \* 31-32: an initializer that is `arguments`, that is `new.target`
    <<TVarDecl("var", "a", TId("arguments")), TReturn(Curried("add", TId("a"), TId(i)))>>,
    <<TVarDecl("var", "t", TNewTarget), TReturn(Curried("add", TId("t"), TId(i)))>>
    >>

\* what varies besides the body: how add is declared, what leads the
\* statement sequences, the kind of the closures, names that clash
Variants ==
    {v \in [add : {"function", "var"},
            prelude : {"none", "import", "directive"},
            arrow : BOOLEAN,
            clash : {"none", "top", "inner", "global", "helper", "helpers"}] :
       Cardinality({f \in {"add", "prelude", "arrow", "clash"} :
                       v[f] # [add |-> "function", prelude |-> "none",
                               arrow |-> FALSE, clash |-> "none"][f]}) <= 1}

ClashNames(m) == <<"xy__fb", "add_" \o m \o "__fb">>

Directive(v) ==
    IF v.prelude = "directive" THEN <<TExprStmt(TStr("use strict"))>> ELSE <<>>

\* the closure of level lvl of a chain of depth d
RECURSIVE Closure(_, _, _, _)
Closure(lvl, d, body, v) ==
    LET ps == IF lvl = d /\ v.clash = "inner"
              THEN <<ParamNames[lvl]>> \o ClashNames(ParamNames[d - 1])
              ELSE <<ParamNames[lvl]>>
        stmts == Directive(v)
                 \o (IF lvl = d THEN body
                     ELSE <<TReturn(Closure(lvl + 1, d, body, v))>>)
    IN  IF ~v.arrow THEN TFunExpr(ps, stmts)
        ELSE IF Len(stmts) = 1 /\ stmts[1].type = "ReturnStatement"
        THEN TArrow(ps, stmts[1].kids[1])
        ELSE TArrow(ps, TBlock(stmts))

AddTree(v) ==
    LET body == <<TReturn(TFunExpr(<<"y">>, <<TReturn(TBin(TId("x"), TId("y")))>>))>>
    IN  IF v.add = "function" THEN TFunDecl("add", <<"x">>, body)
        ELSE TVarDecl("var", "add", TFunExpr(<<"x">>, body))

Unit(d, k, v) ==
    LET o == ParamNames[1]
        m == ParamNames[d - 1]
        i == ParamNames[d]
        lead == IF v.prelude = "import" THEN <<TImport>>
                ELSE IF v.prelude = "directive" THEN <<TExprStmt(TStr("use strict"))>>
                ELSE <<>>
        clash == IF v.clash = "top"
                 THEN <<TFunDecl(ClashNames(m)[1], <<>>, <<>>),
                        TFunDecl(ClashNames(m)[2], <<>>, <<>>)>>
                 ELSE IF v.clash = "global"
                 THEN <<TExprStmt(TId(ClashNames(m)[1])),
                        TExprStmt(TId(ClashNames(m)[2]))>>
                 ELSE IF v.clash = "helper"
                 THEN <<TFunDecl(HelperBase, <<>>, <<>>)>>
                 ELSE IF v.clash = "helpers"
                 THEN <<TFunDecl(HelperBase, <<>>, <<>>),
                        TExprStmt(TId(HelperBase \o "_1"))>>
                 ELSE <<>>
    IN  TProgram(lead \o clash
                 \o <<AddTree(v),
                      TFunDecl("main", <<o>>,
                          Directive(v) \o <<TReturn(Closure(2, d, Bodies(o, m, i)[k], v))>>),
                      TExprStmt(TCall(TId("main"), <<TNum>>))>>)

NoBodies == Len(Bodies("x", "x", "y"))

(***************************************************************************)
(* The run of the plugin over one unit.                                   *)
(***************************************************************************)
Init ==
    /\ \E d \in 2..MaxDepth, k \in 1..NoBodies, v \in Variants :
           \E unit \in {Unit(d, k, v)} : ast = Flatten(unit, 1, 0)
    /\ \E table \in {[s \in ScopesAmong(ast, DOMAIN ast) |-> Crawl(ast, s)]} :
           bindings = table
    /\ globals = {ast[n].name : n \in {j \in DOMAIN ast :
                      /\ isIdentifier(j)
                      /\ BindingScope(ScopeOf(j), ast[j].name) = 0}}
    /\ GENERATED = {}
    /\ RESERVED_NAMES = <<>>
    /\ progData = [injected |-> FALSE, fbHelperName |-> ""]
    /\ agenda = <<1>>
    /\ hoists = <<>>
    /\ last = [via |-> "none", node |-> 0, verdict |-> ""]
    /\ previous = <<>>
    /\ visited = {}
    /\ thunks = <<>>
    /\ stack = <<>>

Next ==
    \/ VisitProgram
    \/ VisitCallExpression
    \/ VisitVariableDeclarator

Spec == Init /\ [][Next]_vars

Done == agenda = <<>>

(***************************************************************************)
(* The injected helper at run time (lib.js:365-398):                      *)
(*   function floatedBinding(init) {                                      *)
(*     let get = () => { const v = init(); get = () => v; return v; };    *)
(*     return () => get();                                                *)
(*   }                                                                     *)
(* One record per accessor returned: what `get` is bound to, the value    *)
(* it closes over, and the history of the accessor (producer calls        *)
(* started, values the producer returned, outcome of each invocation      *)
(* that ended, whether two producer calls were ever under way at once,    *)
(* whether a producer call started after another had returned).           *)
(* A producer is any function: a call of it returns some value or throws, *)
(* and while it runs it may make and invoke accessors, its own included.  *)
(***************************************************************************)
Values == {"a", "b"}

\* lib.js:369-392  let get = () => { const v = init(); ... }
NewAccessor ==
    [get |-> "first", v |-> "none", inits |-> 0, produced |-> <<>>,
     results |-> <<>>, overlapped |-> FALSE, late |-> FALSE]

\* variant in which `get` is not rebound
RebindNothing(cell, val) == cell

\* lib.js:383-389  get = () => v
Rebind(cell, val) == [cell EXCEPT !.get = "cached", !.v = val]

\* what the helper's steps leave alone: the state of the pass
passVars == <<ast, bindings, globals, GENERATED, RESERVED_NAMES, progData,
              agenda, hoists, last, previous, visited>>

\* the invocations of accessor t started so far
Invocations(t) ==
    Len(thunks[t].results) + Cardinality({i \in DOMAIN stack : stack[i] = t})

\* lib.js:365  a call of the helper returns a new accessor
floatedBinding ==
    /\ Len(thunks) < MaxThunks
    /\ thunks' = Append(thunks, NewAccessor)
    /\ UNCHANGED <<stack, passVars>>

\* lib.js:393-395  () => get(): with `get` still the first function the
\* producer is called (lib.js:375-380); with `get` rebound, v is returned
InvokeAccessor(t) ==
    /\ Invocations(t) < MaxForce
    /\ IF thunks[t].get = "first"
       THEN /\ thunks' = [thunks EXCEPT
                   ![t].inits = @ + 1,
                   ![t].late = @ \/ thunks[t].produced # <<>>,
                   ![t].overlapped = @ \/ (\E i \in DOMAIN stack : stack[i] = t)]
            /\ stack' = <<t>> \o stack
       ELSE /\ thunks' = [thunks EXCEPT ![t].results = Append(@, thunks[t].v)]
            /\ UNCHANGED stack
    /\ UNCHANGED passVars

\* lib.js:375-391  init() returns val: const v = val; get = () => v; return v
ProducerReturns(val) ==
    /\ stack # <<>>
    /\ LET t == Head(stack)
       IN  thunks' = [thunks EXCEPT
               ![t] = [Rebind(@, val) EXCEPT !.produced = Append(@, val),
                                             !.results = Append(@, val)]]
    /\ stack' = Tail(stack)
    /\ UNCHANGED passVars

\* lib.js:375-380  init() throws: the first function is left before the
\* assignment to `get`
ProducerThrows ==
    /\ stack # <<>>
    /\ thunks' = [thunks EXCEPT ![Head(stack)].results = Append(@, "throw")]
    /\ stack' = Tail(stack)
    /\ UNCHANGED passVars

InitHelper ==
    /\ thunks = <<>>
    /\ stack = <<>>
    /\ ast = <<>>
    /\ bindings = <<>>
    /\ globals = {}
    /\ GENERATED = {}
    /\ RESERVED_NAMES = <<>>
    /\ progData = [injected |-> TRUE, fbHelperName |-> "floatedBinding"]
    /\ agenda = <<>>
    /\ hoists = <<>>
    /\ last = [via |-> "none", node |-> 0, verdict |-> ""]
    /\ previous = <<>>
    /\ visited = {}

NextHelper ==
    \/ floatedBinding
    \/ \E t \in DOMAIN thunks : InvokeAccessor(t)
    \/ \E val \in Values : ProducerReturns(val)
    \/ ProducerThrows

SpecHelper == InitHelper /\ [][NextHelper]_vars

(***************************************************************************)
(* What the properties speak of: the bindings the tree has as it stands   *)
(* (the hoisted declarations included), and the parts of one hoist.       *)
(***************************************************************************)
\* the names scope u declares in the tree as it stands
DeclaredNames(u) == {b.name : b \in Crawl(ast, u)}

\* the scope that declares n for a lookup starting at scope s (0: none)
DeclaringScope(s, n) ==
    LET owner[u \in 0..Len(ast)] ==
            IF u = 0 THEN 0
            ELSE IF n \in DeclaredNames(u) THEN u
            ELSE owner[scopeParent(u)]
    IN  owner[s]

\* ordinary outward lookup of n from scope s finds a declaration or an
\* ambient name
Resolvable(n, s) == DeclaringScope(s, n) # 0 \/ n \in globals

\* the copied expression of hoist h
CopyOf(h) == h.decl + 5

\* the names read below or at root that no scope inside root declares
FreeNames(root) ==
    {ast[p].name : p \in {q \in Subtree(ast, root) :
        /\ isReferencedIdentifier(q)
        /\ DeclaringScope(ScopeOf(q), ast[q].name) \notin Subtree(ast, root)}}

\* C1  Scope safety: in every state of a run, for every hoisted declaration,
\* every free variable of its copied initializer (the names the pass
\* collected for it, and the names the copy reads and does not declare
\* itself) is found by outward lookup from the scope the declaration was
\* inserted in: declared there or above, or ambient.
ScopeSafety ==
    \A i \in DOMAIN hoists :
        \A n \in hoists[i].fvs \cup FreeNames(CopyOf(hoists[i])) :
            Resolvable(n, ScopeOf(hoists[i].decl))

\* a hoist into a function scope whose own parameter the copy reads
ScopeSafetyWitness ==
    \E i \in DOMAIN hoists :
        /\ isFunction(hoists[i].target)
        /\ ScopeOf(hoists[i].decl) = hoists[i].target
        /\ \E n \in FreeNames(CopyOf(hoists[i])) :
               /\ n \notin globals
               /\ DeclaringScope(hoists[i].target, n) = hoists[i].target

\* whether hoist h's accessor name was free when it was allocated: not bound
\* or ambient at the target scope or above, not reserved there earlier, and
\* not an own binding or reservation of a scope from the use site up to the
\* target
NameWasFree(h) ==
    /\ \A s \in ChainSet(h.target) :
          /\ ~hasOwnBinding(s, h.name)
          /\ (s \in DOMAIN h.reservedBefore => h.name \notin h.reservedBefore[s])
    /\ h.name \notin globals
    /\ \A u \in ChainUpTo(h.useScope, h.target) :
          /\ ~hasOwnBinding(u, h.name)
          /\ (u \in DOMAIN h.reservedBefore => h.name \notin h.reservedBefore[u])

\* C2  Name uniqueness: for every hoist of a run, the allocated accessor
\* name was free when allocated (no binding or ambient name at the target
\* scope or above, no earlier reservation there, no own binding or
\* reservation of a scope between use site and target); hence the accessor
\* call left at the use site is resolved, by outward lookup in the tree as it
\* stands, to the scope holding its hoisted declaration, and no two hoisted
\* declarations of one scope share a name.
NameUniqueness ==
    /\ \A i \in DOMAIN hoists : NameWasFree(hoists[i])
    /\ \A i \in DOMAIN hoists :
          hoists[i].call \in Attached(ast) =>
              /\ hoists[i].decl \in Attached(ast)
              /\ DeclaringScope(ScopeOf(hoists[i].call), hoists[i].name)
                     = ScopeOf(hoists[i].decl)
    /\ \A i, j \in DOMAIN hoists :
          (i # j /\ hoists[i].name = hoists[j].name)
              => ScopeOf(hoists[i].decl) # ScopeOf(hoists[j].decl)

\* a hoist whose first-choice name was taken, so that a numbered one was
\* allocated
NameUniquenessWitness ==
    \E i \in DOMAIN hoists :
        /\ ~EndsWith(hoists[i].name, "__fb")
        /\ hoists[i].call \in Attached(ast)

\* the declaration of the runtime helper (0 before it is injected)
HelperNode ==
    IF ~progData.injected THEN 0
    ELSE CHOOSE n \in DOMAIN ast :
             /\ ast[n].type = "FunctionDeclaration"
             /\ ast[n].name = progData.fbHelperName
             /\ ast[n].up = 1
             /\ ast[ast[n].kids[1]].kids # <<>>
             /\ ast[ast[ast[n].kids[1]].kids[1]].name = "let"

\* whether node n was created by hoist h: the hoisted declaration with its
\* declarator, helper call, producer and copied expression, or the accessor
\* call put in the expression's place
CreatedBy(h, n) ==
    \/ n \in {h.decl, h.call}
    \/ IsAncestor(ast, h.decl, n)
    \/ IsAncestor(ast, h.call, n)

\* C3  Single-pass idempotence: no hoist of a run has, as its candidate, a
\* node that an earlier hoist of the run created (the copied expression or a
\* node inside it, the producer, the helper call, the hoisted declaration or
\* its declarator, the accessor call) or a node of the injected helper.
SinglePassIdempotence ==
    \A i \in DOMAIN hoists :
        /\ \A j \in 1..(i - 1) : ~CreatedBy(hoists[j], hoists[i].site)
        /\ HelperNode # 0 => ~IsAncestor(ast, HelperNode, hoists[i].site)

\* C4  Nullary-call exclusion: in every state of a run, no copied
\* initializer of a hoisted declaration has, anywhere in its subtree (the
\* root and nested function bodies included), a call with zero arguments;
\* and a candidate with such a call in its subtree is not floated.
NullaryExclusion ==
    /\ \A i \in DOMAIN hoists :
          \A x \in Subtree(ast, CopyOf(hoists[i])) : ~isNullaryCall(x)
    /\ \A i \in DOMAIN hoists :
          \A x \in Subtree(ast, hoists[i].expr) : ~isNullaryCall(x)

\* a reference whose meaning depends on the invocation: this, a read of
\* `arguments`, super, new.target
IsFrameSensitive(p) ==
    \/ ast[p].type = "ThisExpression"
    \/ (isReferencedIdentifier(p) /\ ast[p].name = "arguments")
    \/ ast[p].type = "Super"
    \/ (ast[p].type = "MetaProperty" /\ ast[p].name = "new.target")

\* C5  Frame-sensitive exclusion: no expression floated by a run, on the
\* bare-call path or the declaration path, is or contains a reference to
\* this, a read of `arguments`, super or new.target; and no copied
\* initializer of a hoisted declaration ever contains one.
FrameSensitiveExclusion ==
    \A i \in DOMAIN hoists :
        /\ \A p \in Subtree(ast, hoists[i].expr) : ~IsFrameSensitive(p)
        /\ \A p \in Subtree(ast, CopyOf(hoists[i])) : ~IsFrameSensitive(p)

\* a candidate with such a reference has just been visited and left in place
FrameSensitiveWitness ==
    /\ last.verdict \in {"frame", "nodeps"}
    /\ \E p \in Subtree(ast, last.node) : IsFrameSensitive(p)
    /\ last.node \in Attached(ast)
    /\ \A i \in DOMAIN hoists : hoists[i].site # last.node

\* the values among the outcomes of accessor t's invocations
Returned(t) ==
    {thunks[t].results[i] : i \in DOMAIN thunks[t].results} \ {"throw"}

Thrown(t) ==
    Cardinality({i \in DOMAIN thunks[t].results : thunks[t].results[i] = "throw"})

\* C6 as stated  Memoize-once accessor: for every accessor and every
\* sequence of invocations, the producer is invoked at most once, on the
\* first invocation; the accessor is Cached from then on; and every
\* invocation returns the value that one producer call produced.
MemoizeOnceAsStated ==
    \A t \in DOMAIN thunks :
        /\ thunks[t].inits <= 1
        /\ Len(thunks[t].produced) <= 1
        /\ (thunks[t].results # <<>> =>
               /\ thunks[t].get = "cached"
               /\ \A i \in DOMAIN thunks[t].results :
                      thunks[t].results[i] = thunks[t].produced[1])

\* C6  Memoize-once accessor, amended: for every accessor and every
\* sequence of invocations, the producer is never invoked after a call of
\* it has returned; the accessor is Pending until the first producer call
\* returns and Cached, with the value last produced, ever after; every
\* invocation that returns yields a value the producer produced.  Unless
\* the producer invokes its own accessor while it runs, at most one
\* producer call returns, every producer call before it threw, and every
\* invocation that returns yields that one value.
MemoizeOnce ==
    \A t \in DOMAIN thunks :
        /\ ~thunks[t].late
        /\ (thunks[t].get = "cached") = (thunks[t].produced # <<>>)
        /\ (thunks[t].get = "cached" =>
               thunks[t].v = thunks[t].produced[Len(thunks[t].produced)])
        /\ Returned(t) \subseteq
               {thunks[t].produced[i] : i \in DOMAIN thunks[t].produced}
        /\ (~thunks[t].overlapped =>
               /\ Len(thunks[t].produced) <= 1
               /\ thunks[t].inits - Thrown(t) - Len(thunks[t].produced) \in {0, 1}
               /\ (thunks[t].produced # <<>> =>
                      thunks[t].inits = Thrown(t) + 1)
               /\ Cardinality(Returned(t)) <= 1)

\* an accessor whose producer threw at the first invocation, returned at
\* the second, and that was invoked again after that
MemoizeOnceWitness ==
    \E t \in DOMAIN thunks :
        /\ Len(thunks[t].results) >= 3
        /\ thunks[t].results[1] = "throw"
        /\ thunks[t].results[2] # "throw"
        /\ thunks[t].results[3] = thunks[t].results[2]
        /\ thunks[t].inits = 2
        /\ ~thunks[t].overlapped

\* the node the traversal enters next, when it is one the resolver can be
\* asked about, and the names the resolver is given for it
Candidates ==
    IF agenda = <<>> THEN {}
    ELSE {n \in {Head(agenda)} :
             \/ isCallExpression(n)
             \/ (ast[n].type = "VariableDeclarator" /\ InitOf(n) # 0)}

NamesOf(n) == IF isCallExpression(n) THEN freeVarsOfNode(n) ELSE freeVarsOfDecl(n)

\* the visibility test of name at scope s, judged from the use site's scope
\* start: the binding that start resolves name to is owned by s or a scope
\* above s, or name is a parameter of s, or name is ambient
PassesAt(name, s, start) ==
    \/ \E u \in ChainSet(s) : u = BindingScope(start, name)
    \/ (isFunction(s) /\ \E i \in DOMAIN ast[s].params : ast[s].params[i] = name)
    \/ name \in globals

\* the function and program scopes from scope s outward
FunctionScopesFrom(s) == {u \in ChainSet(s) : isFunction(u) \/ isProgram(u)}

\* the next function or program scope above r (0: none)
NextOut(r) ==
    IF FunctionScopesFrom(r) \ {r} = {} THEN 0
    ELSE CHOOSE u \in FunctionScopesFrom(r) \ {r} :
             \A w \in FunctionScopesFrom(r) \ {r} : w \in ChainSet(u)

\* the answer r for names and use site n is a function or program scope on
\* the use site's chain, the names pass the test at each scope of tested,
\* and r is maximal
IsOutermost(r, names, n, tested) ==
    /\ r \in FunctionScopesFrom(ScopeOf(n))
    /\ \A s \in tested : \A name \in names : PassesAt(name, s, ScopeOf(n))
    /\ \/ isProgram(r)
       \/ \E name \in names : ~PassesAt(name, NextOut(r), ScopeOf(n))

\* the function scopes from the use site's nearest one out to r
UpTo(n, r) == {s \in FunctionScopesFrom(ScopeOf(n)) : r \in ChainSet(s)}

\* C7 as stated  Outermost target: for a non-empty set of names that are
\* all resolvable, the resolver's answer is a function or program scope on
\* the use site's chain, every name passes the visibility test at it and at
\* every function scope between it and the use site, and it is maximal; for
\* an empty set the answer is the program scope.
OutermostTargetAsStated ==
    \A n \in Candidates :
        LET r == outermostScopeWith(NamesOf(n), n)
        IN  IF NamesOf(n) = {} THEN isProgram(r)
            ELSE AllFound(NamesOf(n), ScopeOf(n)) =>
                     IsOutermost(r, NamesOf(n), n, UpTo(n, r))

\* C7  Outermost target, amended: as stated, but the visibility test is
\* passed at the scopes the resolver widened to, that is at every function
\* or program scope from the answer down to, and not including, the use
\* site's nearest enclosing function scope (where the walk starts untested).
OutermostTarget ==
    \A n \in Candidates :
        LET r == outermostScopeWith(NamesOf(n), n)
        IN  IF NamesOf(n) = {} THEN isProgram(r)
            ELSE AllFound(NamesOf(n), ScopeOf(n)) =>
                     IsOutermost(r, NamesOf(n), n,
                                 UpTo(n, r) \ {CurrentScopeOf(n)})

\* a candidate floated to a closure between its own and the program: the
\* walk widened, and stopped where a name ceased to pass
OutermostTargetWitness ==
    \E i \in DOMAIN hoists :
        /\ isFunction(hoists[i].target)
        /\ hoists[i].target # hoists[i].current
        /\ hoists[i].fvs # {}
        /\ \E name \in hoists[i].fvs :
               ~PassesAt(name, NextOut(hoists[i].target), hoists[i].useScope)

\* seq without the nodes that did not exist in tree a
WithoutNew(seq, a) == SelectSeq(seq, LAMBDA n : n \in DOMAIN a)

\* node c of tree a is the call <name>() with no argument
IsAccessorCall(a, c, name) ==
    /\ a[c].type = "CallExpression"
    /\ Len(a[c].kids) = 1
    /\ a[a[c].kids[1]].type = "Identifier"
    /\ a[a[c].kids[1]].name = name

\* statement st of tree a is `const <name> = <helper>(() => <a copy of e>)`
IsHoistedDeclaration(a, st, name, helper, e) ==
    /\ a[st].type = "VariableDeclaration"
    /\ a[st].name = "const"
    /\ Len(a[st].kids) = 1
    /\ LET dr == a[st].kids[1]
       IN  /\ a[dr].type = "VariableDeclarator"
           /\ a[dr].name = name
           /\ Len(a[dr].kids) = 1
           /\ LET call == a[dr].kids[1]
              IN  /\ a[call].type = "CallExpression"
                  /\ Len(a[call].kids) = 2
                  /\ a[a[call].kids[1]].type = "Identifier"
                  /\ a[a[call].kids[1]].name = helper
                  /\ LET producer == a[call].kids[2]
                     IN  /\ a[producer].type = "ArrowFunctionExpression"
                         /\ a[producer].params = <<>>
                         /\ Len(a[producer].kids) = 1
                         /\ ToTree(a, a[producer].kids[1]) = e

\* what a step that floats the declaration candidate d does
SwapsInitializer(d) ==
    LET h == hoists'[Len(hoists')]
        vd == ast[d].up
    IN  /\ ast'[d].type = "VariableDeclarator"
        /\ ast'[d].name = ast[d].name
        /\ ast'[d].up = vd
        /\ ast'[vd] = ast[vd]
        /\ WithoutNew(ast'[ast[vd].up].kids, ast) = ast[ast[vd].up].kids
        /\ vd \in Attached(ast')
        /\ Len(ast'[d].kids) = 1
        /\ ast'[d].kids[1] \notin DOMAIN ast
        /\ IsAccessorCall(ast', ast'[d].kids[1], h.name)
        /\ IsHoistedDeclaration(ast', h.decl, h.name, progData.fbHelperName,
                                ToTree(ast, InitOf(d)))
        /\ h.decl \in Attached(ast')
        /\ h.decl \notin DOMAIN ast

\* C8  Declaration hoist is an in-place initializer swap: every step that
\* floats a declaration candidate `kind name = E` leaves the declaration
\* with its keyword, its declared name and its place among the statements
\* around it, makes its initializer a zero-argument call of the newly
\* allocated accessor, and adds the declaration `const <accessor> =
\* <helper>(() => <copy of E>)`.
DeclarationSwap ==
    [][(last'.via = "decl" /\ last'.verdict = "hoist")
          => SwapsInitializer(last'.node)]_vars

\* a `let` declaration has just been floated
DeclarationSwapWitness ==
    /\ last.via = "decl"
    /\ last.verdict = "hoist"
    /\ ast[ast[last.node].up].name = "let"
    /\ IsAccessorCall(ast, ast[last.node].kids[1], hoists[Len(hoists)].name)

\* name n, looked up from the scope of node site, is a var/let/const binding
\* owned by the function that encloses site (by that function's scope or by
\* a block inside it)
IsLocalOfCurrentFunction(n, site) ==
    LET owner == BindingScope(ScopeOf(site), n)
    IN  /\ owner # 0
        /\ BindingKind(ScopeOf(site), n) \in {"var", "let", "const"}
        /\ getFunctionParent(owner) = getFunctionParent(ScopeOf(site))
        /\ getFunctionParent(owner) # 0

\* C9  Bare-call local-dependency restriction: a bare call is floated only
\* if none of its free variables resolves, from the use site, to a var, let
\* or const binding of the function that encloses it; and a bare call that
\* passed every other test is left for its dependencies only if one of its
\* free variables does resolve to such a binding (parameters, and bindings
\* owned by scopes outside that function, do not block the float).
LocalDependencyRestriction ==
    /\ \A i \in DOMAIN hoists :
          hoists[i].via = "call" =>
              \A n \in hoists[i].fvs :
                  ~(/\ BindingScope(hoists[i].useScope, n) # 0
                    /\ BindingKind(hoists[i].useScope, n) \in {"var", "let", "const"}
                    /\ getFunctionParent(BindingScope(hoists[i].useScope, n))
                           = hoists[i].current)
    /\ (last.via = "call" /\ last.verdict = "localdep") =>
           \E n \in freeVarsOfNode(last.node) :
               IsLocalOfCurrentFunction(n, last.node)

\* the nodes of the tree below id, id first, in the order they are printed
RECURSIVE PreOrder(_, _), PreOrderKids(_, _, _)
PreOrder(a, id) == <<id>> \o PreOrderKids(a, a[id].kids, 1)
PreOrderKids(a, ks, i) ==
    IF i > Len(ks) THEN <<>>
    ELSE PreOrder(a, ks[i]) \o PreOrderKids(a, ks, i + 1)

\* whether node m comes before node n in order, the program as printed
Precedes(order, m, n) ==
    \E i \in DOMAIN order :
        /\ order[i] = m
        /\ \E j \in (i + 1)..Len(order) : order[j] = n

IsImportOrDirective(a, st) ==
    \/ a[st].type = "ImportDeclaration"
    \/ (a[st].type = "ExpressionStatement" /\ a[a[st].kids[1]].type = "StringLiteral")

\* the statements ahead of statement st in its container
StatementsAhead(a, st) ==
    LET ks == a[a[st].up].kids
    IN  {ks[i] : i \in {j \in DOMAIN ks : \E k \in DOMAIN ks : j < k /\ ks[k] = st}}

\* the step that performs hoist h put its declaration into the statement
\* sequence of the target scope itself, behind leading imports and
\* directives only; an arrow with an expression body got a block returning
\* that expression
InsertedAtFront(h) ==
    /\ ast'[h.decl].up = h.container
    /\ h.decl \in Attached(ast')
    /\ IF isProgram(h.target) THEN h.container = h.target
       ELSE /\ isFunction(h.target)
            /\ ast'[h.target].kids = <<h.container>>
            /\ ast'[h.container].type = "BlockStatement"
            /\ IF ast[ast[h.target].kids[1]].type = "BlockStatement"
               THEN h.container = ast[h.target].kids[1]
               ELSE /\ ast[h.target].type = "ArrowFunctionExpression"
                    /\ Len(ast'[h.container].kids) = 2
                    /\ ast'[h.container].kids[1] = h.decl
                    /\ ast'[ast'[h.container].kids[2]].type = "ReturnStatement"
                    /\ ast'[ast'[h.container].kids[2]].kids = ast[h.target].kids
    /\ \A st \in StatementsAhead(ast', h.decl) : IsImportOrDirective(ast', st)
    /\ WithoutNew(ast'[h.container].kids, ast)
           = (IF h.container \in DOMAIN ast THEN ast[h.container].kids ELSE <<>>)

\* every hoisted declaration comes before every call of its accessor, and
\* has only imports, directives and hoisted declarations ahead of it
DeclaredBeforeUse(a, hs) ==
    \E order \in {PreOrder(a, 1)} :
        \A i \in DOMAIN hs :
            /\ \A c \in Attached(a) :
                  (/\ IsAccessorCall(a, c, hs[i].name)
                   /\ ScopeOf(hs[i].decl) \in ChainSet(ScopeOf(c)))
                      => Precedes(order, hs[i].decl, c)
            /\ \A st \in StatementsAhead(a, hs[i].decl) :
                  \/ IsImportOrDirective(a, st)
                  \/ \E j \in DOMAIN hs : hs[j].decl = st

\* C10  Insertion before use: every step that performs a hoist places the
\* hoisted declaration in the target scope's own statement sequence (the
\* program body, or the function's body block, an expression-bodied arrow
\* being converted to a block returning the expression) with only import
\* and string-literal directive statements ahead of it; and after every
\* step each hoisted declaration precedes, in program order, every call of
\* its accessor.
InsertionBeforeUse ==
    [][/\ Len(hoists') > Len(hoists) => InsertedAtFront(hoists'[Len(hoists')])
       /\ DeclaredBeforeUse(ast, hoists)']_vars

\* a declaration hoisted into a function body behind a directive, with the
\* call of its accessor further on
InsertionBeforeUseWitness ==
    \E i \in DOMAIN hoists :
        /\ isFunction(hoists[i].target)
        /\ \E st \in StatementsAhead(ast, hoists[i].decl) : IsImportOrDirective(ast, st)
        /\ hoists[i].call \in Attached(ast)
        /\ Precedes(PreOrder(ast, 1), hoists[i].decl, hoists[i].call)

\* candidate n has one of the per-candidate reasons for rejection: a
\* zero-argument call or a frame-sensitive reference in its subtree, a free
\* variable found nowhere on its scope chain, a resolved target that is its
\* own enclosing function scope, or (a bare call) a free variable that is a
\* var, let or const of its enclosing function
Floatable(n) == IF isCallExpression(n) THEN n ELSE InitOf(n)

HasRejectionReason(n) ==
    \/ \E x \in Subtree(ast, Floatable(n)) : isNullaryCall(x)
    \/ \E x \in Subtree(ast, Floatable(n)) : IsFrameSensitive(x)
    \/ \E name \in NamesOf(n) :
          /\ BindingScope(ScopeOf(n), name) = 0
          /\ name \notin globals
    \/ outermostScopeWith(NamesOf(n), n) = CurrentScopeOf(n)
    \/ (isCallExpression(n) /\ \E name \in NamesOf(n) : IsLocalOfCurrentFunction(name, n))

\* C11  Rejection leaves everything untouched: the step that handles a
\* candidate with a per-candidate reason for rejection does not float it,
\* and leaves the tree (the candidate's subtree and all the rest), the
\* generated-node marker set and the reserved-names table as they were; the
\* traversal goes on.
RejectionLeavesUntouched ==
    [][\A n \in Candidates :
          (HasRejectionReason(n) /\ agenda' # agenda) =>
              /\ ast' = ast
              /\ GENERATED' = GENERATED
              /\ RESERVED_NAMES' = RESERVED_NAMES
              /\ hoists' = hoists
              /\ last'.node = n
              /\ last'.verdict # "hoist"]_vars

\* a candidate with a free variable found nowhere on its scope chain has
\* just been handled and is still in place
RejectionWitness ==
    /\ last.verdict = "samescope"
    /\ last.node \in Attached(ast)
    /\ \E name \in NamesOf(last.node) :
          /\ BindingScope(ScopeOf(last.node), name) = 0
          /\ name \notin globals
    /\ hoists = <<>>

\* the declarations of a runtime helper among the program's statements:
\* function <name>(init) { let get = ...; return ...; }
HelperDeclarations ==
    {n \in DOMAIN ast :
        /\ ast[n].type = "FunctionDeclaration"
        /\ ast[n].up = 1
        /\ ast[n].params = <<"init">>}

\* name is bound or ambient at program scope, as the run found it
TakenAtProgram(name) == name \in OwnNames(1) \/ name \in globals

\* the names floatedBinding, floatedBinding_1, floatedBinding_2, ...
HelperNameAt(i) == IF i = 0 THEN "floatedBinding" ELSE "floatedBinding_" \o ToString(i)

\* C12  Exactly one helper per run: once the program node has been
\* visited the program's statements hold exactly one helper declaration
\* (none before, and a finished run has one even with no hoist); its name is
\* the first of floatedBinding, floatedBinding_1, ... not taken at program
\* scope; that name is reserved at program scope; and the helper call of
\* every hoisted declaration calls that name.
OneHelperPerRun ==
    /\ Cardinality(HelperDeclarations) = (IF progData.injected THEN 1 ELSE 0)
    /\ Done => progData.injected
    /\ ~progData.injected => hoists = <<>>
    /\ progData.injected =>
          /\ \A n \in HelperDeclarations : ast[n].name = progData.fbHelperName
          /\ \E i \in 0..Len(ast) :
                /\ progData.fbHelperName = HelperNameAt(i)
                /\ ~TakenAtProgram(HelperNameAt(i))
                /\ \A j \in 0..(i - 1) : TakenAtProgram(HelperNameAt(j))
          /\ 1 \in DOMAIN RESERVED_NAMES
          /\ progData.fbHelperName \in RESERVED_NAMES[1]
          /\ \A k \in DOMAIN hoists :
                /\ isCallExpression(hoists[k].decl + 2)
                /\ ast[hoists[k].decl + 2].up = hoists[k].decl + 1
                /\ ast[ast[hoists[k].decl + 2].kids[1]].type = "Identifier"
                /\ ast[ast[hoists[k].decl + 2].kids[1]].name = progData.fbHelperName

\* a finished run in a program where floatedBinding and floatedBinding_1
\* were taken, with a hoisted declaration that calls floatedBinding_2
OneHelperWitness ==
    /\ Done
    /\ hoists # <<>>
    /\ TakenAtProgram("floatedBinding")
    /\ TakenAtProgram("floatedBinding_1")
    /\ progData.fbHelperName = "floatedBinding_2"
    /\ Cardinality(HelperDeclarations) = 1

(***************************************************************************)
(* A second run over the output of a first one (src/main.js run on its    *)
(* own output): the output is printed and parsed again, so the tree has   *)
(* only the nodes in place, the scopes are crawled afresh, and the        *)
(* plugin's tables (lib.js:8, 10) and the program's data start empty.     *)
(***************************************************************************)
Reapply ==
    /\ Done
    /\ progData.injected
    /\ previous = <<>>
    /\ \E out \in {Flatten(ToTree(ast, 1), 1, 0)} :
          /\ ast' = out
          /\ previous' = out
    /\ \E table \in {[s \in ScopesAmong(ast', DOMAIN ast') |-> Crawl(ast', s)]} :
          bindings' = table
    /\ globals' = {ast'[n].name : n \in {j \in DOMAIN ast' :
                       (isIdentifier(j) /\ BindingScope(ScopeOf(j), ast[j].name) = 0)'}}
    /\ GENERATED' = {}
    /\ RESERVED_NAMES' = <<>>
    /\ progData' = [injected |-> FALSE, fbHelperName |-> ""]
    /\ agenda' = <<1>>
    /\ hoists' = <<>>
    /\ last' = [via |-> "none", node |-> 0, verdict |-> ""]
    /\ visited' = {}
    /\ UNCHANGED <<thunks, stack>>

NextAgain ==
    \/ VisitProgram
    \/ VisitCallExpression
    \/ VisitVariableDeclarator
    \/ Reapply

\* the early returns of the three visitors, and "hoist"
Verdicts ==
    {"helper", "generated", "thunk", "inhelper", "toplevel", "declinit",
     "nullary", "frame", "notarget", "samescope", "localdep", "notsimple",
     "noinit", "unused", "nodeps", "hoist"}

\* what every step of the traversal loop does, whatever the visitor: the
\* node at the head of the agenda is visited.  Each of the three visitors
\* is such a step, and a pending node always has a visitor (Expand).
Visit ==
    /\ agenda # <<>>
    /\ \E via \in {"program", "call", "decl"}, why \in Verdicts :
          last' = [via |-> via, node |-> Head(agenda), verdict |-> why]

\* what the start of the second run does to the record of the last visit
Restart ==
    /\ Done
    /\ progData.injected
    /\ previous = <<>>
    /\ last' = [via |-> "none", node |-> 0, verdict |-> ""]

\* the traversal loop runs synchronously until no node is pending, and the
\* second run is started on the output of the first
SpecAgain == Init /\ [][NextAgain]_vars /\ WF_last(Visit) /\ WF_last(Restart)

\* node n of tree a is a call of a hoisted accessor: the callee is an
\* identifier ending in __fb or __fb_<n>
IsAccessorCallNode(a, n) ==
    /\ a[n].type = "CallExpression"
    /\ a[a[n].kids[1]].type = "Identifier"
    /\ IsFbName(a[a[n].kids[1]].name)

SecondRun == previous # <<>>

\* C13  Re-application: in a run over the output of a previous run, no
\* hoist floats a call of an accessor, none floats the initializer of a
\* declaration when that initializer is an accessor call, and no floated
\* expression has an accessor call anywhere inside it (no accessor call is
\* wrapped by a second hoisted declaration); and the second run comes to
\* its end.
Reapplication ==
    /\ [][(SecondRun /\ Len(hoists') > Len(hoists)) =>
             \A x \in Subtree(ast, hoists'[Len(hoists')].expr) :
                 ~IsAccessorCallNode(ast, x)]_vars
    /\ <>(SecondRun /\ Done)

\* the second run has ended, its input had accessor calls and hoisted
\* declarations, and it floated something itself
ReapplicationWitness ==
    /\ SecondRun
    /\ Done
    /\ hoists # <<>>
    /\ \E n \in DOMAIN previous : IsAccessorCallNode(previous, n)
    /\ \E n \in DOMAIN previous :
          /\ previous[n].type = "VariableDeclarator"
          /\ IsFbName(previous[n].name)

\* C14  Binding identity is preserved: for every hoist and every free
\* variable n of the floated expression, outward lookup of n from the scope
\* the declaration was inserted in finds the same binding (the same
\* declaring scope, or none for an ambient name) as outward lookup from the
\* original use site did.
BindingIdentity ==
    \A i \in DOMAIN hoists :
        \A n \in hoists[i].fvs :
            BindingScope(hoists[i].target, n) = BindingScope(hoists[i].useScope, n)

\* the sanitized base the allocator was called with for hoist h
BaseOf(h) ==
    IF h.via = "call" THEN deriveBaseFromCall(h.site) ELSE sanitizeBase(ast[h.site].name)

\* the names b__fb, b__fb_1, b__fb_2, ...
NameAt(b, i) == IF i = 0 THEN b \o "__fb" ELSE b \o "__fb_" \o ToString(i)

\* whether name n was taken when the allocator was called for hoist h:
\* reserved, bound or ambient at the target scope or above it, or reserved
\* or bound in a scope between the use site and the target scope
TakenAtCall(h, n) ==
    \/ \E s \in ChainSet(h.target) :
          \/ (s \in DOMAIN h.reservedBefore /\ n \in h.reservedBefore[s])
          \/ \E b \in bindings[s] : b.name = n
          \/ n \in globals
    \/ \E u \in ChainSet(h.useScope) \ ChainSet(h.target) :
          \/ (u \in DOMAIN h.reservedBefore /\ n \in h.reservedBefore[u])
          \/ \E b \in bindings[u] : b.name = n

\* the place of hoist h's name in the sequence of its base (-1: not in it)
PlaceOf(h) ==
    IF \E i \in 0..Len(ast) : h.name = NameAt(BaseOf(h), i)
    THEN CHOOSE i \in 0..Len(ast) : h.name = NameAt(BaseOf(h), i)
    ELSE -1

\* C15  Allocation order: the name of every hoist is the first name of
\* b__fb, b__fb_1, b__fb_2, ... (b its sanitized base) that was not taken
\* when the allocator was called; the name is in the target scope's
\* reserved set from then on; and of two allocations of one run with the
\* same base and the same target scope the later gets a later name of the
\* sequence.
AllocationOrder ==
    \A k \in DOMAIN hoists :
        /\ PlaceOf(hoists[k]) >= 0
        /\ ~TakenAtCall(hoists[k], hoists[k].name)
        /\ \A j \in 0..(PlaceOf(hoists[k]) - 1) :
              TakenAtCall(hoists[k], NameAt(BaseOf(hoists[k]), j))
        /\ hoists[k].target \in DOMAIN RESERVED_NAMES
        /\ hoists[k].name \in RESERVED_NAMES[hoists[k].target]
        /\ \A l \in DOMAIN hoists :
              (/\ k < l
               /\ BaseOf(hoists[l]) = BaseOf(hoists[k])
               /\ hoists[l].target = hoists[k].target)
              => PlaceOf(hoists[l]) > PlaceOf(hoists[k])

\* two allocations with the same base and target scope where b__fb was
\* taken from the start: the first got b__fb_1, the second b__fb_2
AllocationOrderWitness ==
    \E k, l \in DOMAIN hoists :
        /\ k < l
        /\ BaseOf(hoists[l]) = BaseOf(hoists[k])
        /\ hoists[l].target = hoists[k].target
        /\ PlaceOf(hoists[k]) = 1
        /\ PlaceOf(hoists[l]) = 2

\* the nodes the step of hoist h created: the copied expression, the
\* zero-argument producer around it, the helper call, the hoisted
\* declaration, and the accessor call put in the expression's place
CreatedInStep(h) == {CopyOf(h), h.decl + 4, h.decl + 2, h.decl, h.call}

\* C16  Marking completeness: after each accepted hoist the generated-node
\* marker set contains every node the step created: the copied expression,
\* the producer, the helper call, the hoisted declaration and the
\* replacement accessor call.
MarkingCompleteness ==
    \A k \in DOMAIN hoists :
        /\ ast[hoists[k].decl + 4].type = "ArrowFunctionExpression"
        /\ ast[hoists[k].decl + 2].type = "CallExpression"
        /\ CreatedInStep(hoists[k]) \subseteq GENERATED

\* the run with its scheduling: the traversal loop is synchronous and goes
\* on while a node is pending
SpecLive == Init /\ [][Next]_vars /\ WF_last(Visit)

\* the nodes of the input tree that have a visitor (the helper's
\* declaration is the first node a run adds)
OriginalCandidates ==
    {n \in DOMAIN ast :
        /\ ast[n].type \in {"CallExpression", "VariableDeclarator"}
        /\ (progData.injected => n < HelperNode)}

\* node n was floated: a hoist was made for it, or it lies in the
\* expression a hoist moved
Floated(n) ==
    \E k \in DOMAIN hoists :
        n = hoists[k].site \/ n \in Subtree(ast, hoists[k].expr)

\* node n was rejected: its visitor was called and returned early
Rejected(n) == n \in visited /\ \A k \in DOMAIN hoists : hoists[k].site # n

\* C17  Termination: every run comes to its end (no node is pending any
\* more, the nodes inserted during the run included); no node is visited
\* twice; no node is floated twice; the hoists are no more than the visits;
\* no original node is both floated and rejected, and when the run has
\* ended every original call and declarator is one or the other.  (That the
\* resolver's walk and the allocator's search end shows in every step being
\* computed.)
Termination ==
    /\ <>Done
    /\ [][agenda' # agenda => Head(agenda) \notin visited]_vars
    /\ [](\A k, l \in DOMAIN hoists :
             k # l => /\ hoists[k].site # hoists[l].site
                      /\ hoists[k].expr # hoists[l].expr)
    /\ [](Len(hoists) <= Cardinality(visited))
    /\ [](\A n \in OriginalCandidates : ~(Floated(n) /\ Rejected(n)))
    /\ [](Done => \A n \in OriginalCandidates : Floated(n) \/ Rejected(n))

\* a run has ended in which an original call was floated, another call of
\* the input lay in the floated expression, and others were rejected
TerminationWitness ==
    /\ Done
    /\ \E k \in DOMAIN hoists :
          /\ hoists[k].via = "call"
          /\ hoists[k].site \in OriginalCandidates
          /\ \E n \in OriginalCandidates \ visited : n \in Subtree(ast, hoists[k].expr)
    /\ \E n \in OriginalCandidates : Rejected(n)

====
